---------------------------- MODULE Spec2Model ----------------------------
(***************************************************************************)
(* A model of the RPN calculator of src/src/main.rs: the App struct (input *)
(* line, cursor, input mode, operand stack, undo and redo histories), the  *)
(* dispatcher process_input and the perform_* / undo / redo methods.       *)
(*                                                                         *)
(* An f64 is modelled exactly on the part of its range the model visits:   *)
(* a value is a pair <<n, d>>                                              *)
(*     d > 0, n # 0   the finite double n/d, in lowest terms               *)
(*     <<0, 1>>       +0.0          <<0, -1>>   -0.0                       *)
(*     <<1, 0>>       +Infinity     <<-1, 0>>   -Infinity                  *)
(*     <<0, 0>>       NaN                                                  *)
(* Only dyadic fractions of bounded size are kept (Representable): on them *)
(* IEEE-754 addition, subtraction, multiplication and remainder are exact, *)
(* so the rational result IS the double the program computes.  A result    *)
(* that the model cannot denote exactly is Inexact, and a step producing   *)
(* one lies outside the bounds of the model (see InBounds).                *)
(*                                                                         *)
(* A whole double of 2^31 or more, which only `!` produces, is the tuple   *)
(* of the four 16-bit limbs of its value, lowest first; no state keeps     *)
(* one, and only `!`, undo and redo ever meet one.                         *)
(*                                                                         *)
(* The u64 product of `!` overflows for operands of 21 and more; what the  *)
(* program does then is set by the build (rustc's overflow-checks, on in   *)
(* cargo's dev and test profiles and off in its release profile): it       *)
(* panics when they are on and wraps when they are off.  The model runs    *)
(* both builds: overflow_checks is chosen at the start and never changes.  *)
(*                                                                         *)
(* run is a loop that reads one key event and handles it.  panicked says   *)
(* that a handler panicked and returned that run returned (the key q in    *)
(* Normal mode); no event is read after either.  frame is the call of      *)
(* factorial in flight, for the machine that takes the loop of `!` round   *)
(* by round: <<>> when there is none, as in the machines that take each    *)
(* handler in one step.                                                    *)
(***************************************************************************)
EXTENDS Integers, Sequences, FiniteSets, TLC

VARIABLES input, character_index, input_mode, stack, undo, redo,
          overflow_checks, panicked, returned, frame

vars ==
    <<input, character_index, input_mode, stack, undo, redo,
      overflow_checks, panicked, returned, frame>>

(* ------------------------------ bounds --------------------------------- *)

\* Largest size of the two histories together the model lets exist: one cell
\* for each snapshot and one for each value in it.
MaxCells == 6

\* Largest numerator of a finite value the model keeps.
MaxNum == 1000

\* Finite values have a denominator dividing 2^FracBits.
FracBits == 1

(* ------------------------------ f64 values ----------------------------- *)

NaN == <<0, 0>>

PInf == <<1, 0>>

NInf == <<-1, 0>>

PZero == <<0, 1>>

NZero == <<0, -1>>

\* A result the model cannot denote exactly (never kept in a state).
Inexact == <<0, 2>>

Abs(i) == IF i < 0 THEN -i ELSE i

RECURSIVE GCD(_, _)
GCD(a, b) == IF b = 0 THEN a ELSE GCD(b, a % b)

RECURSIVE Pow2(_)
Pow2(k) == IF k = 0 THEN 1 ELSE 2 * Pow2(k - 1)

IsNaN(v) == v = NaN

IsInf(v) == v[2] = 0 /\ v[1] # 0

IsZero(v) == v[1] = 0 /\ v[2] # 0

IsFinite(v) == v[2] # 0

\* The sign bit (of NaN: not modelled, taken clear).
SignBit(v) == v[1] < 0 \/ (v[1] = 0 /\ v[2] < 0)

\* The denominator of a finite value (1 for both zeros).
Den(v) == Abs(v[2])

Zero(neg) == IF neg THEN NZero ELSE PZero

Inf(neg) == IF neg THEN NInf ELSE PInf

\* The finite value n/d (d > 0) in lowest terms; a zero takes the sign negzero.
Mk(n, d, negzero) ==
    IF n = 0 THEN Zero(negzero)
    ELSE LET g == GCD(Abs(n), d) IN <<n \div g, d \div g>>

IsInteger(v) == IsFinite(v) /\ Den(v) = 1

IsOddInteger(v) == IsInteger(v) /\ Abs(v[1]) % 2 = 1

Representable(v) ==
    \/ v \in {NaN, PInf, NInf, PZero, NZero}
    \/ /\ Len(v) = 2
       /\ v[1] # 0
       /\ v[2] > 0
       /\ Abs(v[1]) <= MaxNum
       /\ Pow2(FracBits) % v[2] = 0

\* -a
f64_neg(a) == IF a[1] = 0 THEN <<0, -a[2]>> ELSE <<-a[1], a[2]>>

\* a.abs()
f64_abs(a) == IF SignBit(a) THEN f64_neg(a) ELSE a

\* a + b
f64_add(a, b) ==
    IF IsNaN(a) \/ IsNaN(b) THEN NaN
    ELSE IF IsInf(a) /\ IsInf(b) THEN (IF a = b THEN a ELSE NaN)
    ELSE IF IsInf(a) THEN a
    ELSE IF IsInf(b) THEN b
    ELSE Mk(a[1] * Den(b) + b[1] * Den(a), Den(a) * Den(b),
            IsZero(a) /\ IsZero(b) /\ SignBit(a) /\ SignBit(b))

\* a - b
f64_sub(a, b) == f64_add(a, f64_neg(b))

\* a * b
f64_mul(a, b) ==
    LET neg == SignBit(a) # SignBit(b) IN
    IF IsNaN(a) \/ IsNaN(b) THEN NaN
    ELSE IF IsInf(a) \/ IsInf(b)
         THEN (IF IsZero(a) \/ IsZero(b) THEN NaN ELSE Inf(neg))
    ELSE Mk(a[1] * b[1], Den(a) * Den(b), neg)

\* a / b, had the quotient of a number by zero been +Infinity whatever the
\* signs.
f64_div_unsigned_infinity(a, b) ==
    LET neg == SignBit(a) # SignBit(b) IN
    IF IsNaN(a) \/ IsNaN(b) THEN NaN
    ELSE IF IsInf(a) THEN (IF IsInf(b) THEN NaN ELSE Inf(neg))
    ELSE IF IsInf(b) THEN Zero(neg)
    ELSE IF IsZero(b) THEN (IF IsZero(a) THEN NaN ELSE PInf)
    ELSE LET n == Abs(a[1]) * Den(b)
             d == Den(a) * Abs(b[1])
         IN  Mk(IF neg THEN -n ELSE n, d, neg)

\* a / b
f64_div(a, b) ==
    LET neg == SignBit(a) # SignBit(b) IN
    IF IsNaN(a) \/ IsNaN(b) THEN NaN
    ELSE IF IsInf(a) THEN (IF IsInf(b) THEN NaN ELSE Inf(neg))
    ELSE IF IsInf(b) THEN Zero(neg)
    ELSE IF IsZero(b) THEN (IF IsZero(a) THEN NaN ELSE Inf(neg))
    ELSE LET n == Abs(a[1]) * Den(b)
             d == Den(a) * Abs(b[1])
         IN  Mk(IF neg THEN -n ELSE n, d, neg)

\* a % b (the remainder of the truncated division: the sign of a)
f64_rem(a, b) ==
    IF IsNaN(a) \/ IsNaN(b) \/ IsInf(a) \/ IsZero(b) THEN NaN
    ELSE IF IsInf(b) \/ IsZero(a) THEN a
    ELSE LET p == Abs(a[1]) * Den(b)
             r == Abs(b[1]) * Den(a)
             m == p % r
         IN  Mk(IF SignBit(a) THEN -m ELSE m, Den(a) * Den(b), SignBit(a))

\* acc * n^k for n >= 2, stopping at the first product above MaxNum
RECURSIVE IPowFrom(_, _, _)
IPowFrom(n, k, acc) ==
    IF k = 0 \/ acc > MaxNum THEN acc ELSE IPowFrom(n, k - 1, acc * n)

\* n^k for n >= 0, k >= 1, or a number above MaxNum when n^k is above it
IPow(n, k) == IF n <= 1 THEN n ELSE IPowFrom(n, k, 1)

\* x.powf(y)
f64_powf(x, y) ==
    IF IsZero(y) \/ x = <<1, 1>> THEN <<1, 1>>
    ELSE IF IsNaN(x) \/ IsNaN(y) THEN NaN
    ELSE IF IsInf(y)
         THEN IF x = <<-1, 1>> THEN <<1, 1>>
              ELSE LET small == IsFinite(x) /\ Abs(x[1]) < Den(x)
                   IN  IF small = SignBit(y) THEN PInf ELSE PZero
    ELSE IF IsZero(x)
         THEN IF SignBit(y) THEN Inf(SignBit(x) /\ IsOddInteger(y))
              ELSE Zero(SignBit(x) /\ IsOddInteger(y))
    ELSE IF IsInf(x)
         THEN IF SignBit(y) THEN Zero(SignBit(x) /\ IsOddInteger(y))
              ELSE Inf(SignBit(x) /\ IsOddInteger(y))
    ELSE IF ~IsInteger(y) THEN (IF SignBit(x) THEN NaN ELSE Inexact)
    ELSE LET k == Abs(y[1])
             pn == IPow(Abs(x[1]), k)
             pd == IPow(Den(x), k)
             neg == SignBit(x) /\ k % 2 = 1
         IN  IF pn > MaxNum \/ pd > MaxNum THEN Inexact
             ELSE IF SignBit(y) THEN <<IF neg THEN -pd ELSE pd, pn>>
             ELSE <<IF neg THEN -pn ELSE pn, pd>>


RECURSIVE ISqrtFrom(_, _)
ISqrtFrom(n, r) == IF r * r >= n THEN r ELSE ISqrtFrom(n, r + 1)

\* The least r with r * r >= n.
ISqrt(n) == ISqrtFrom(n, 0)

IsSquare(n) == ISqrt(n) * ISqrt(n) = n

\* a.sqrt()
f64_sqrt(a) ==
    IF IsNaN(a) \/ IsZero(a) \/ a = PInf THEN a
    ELSE IF SignBit(a) THEN NaN
    ELSE IF IsSquare(a[1]) /\ IsSquare(a[2]) THEN <<ISqrt(a[1]), ISqrt(a[2])>>
    ELSE Inexact

\* a.sin(), a.tan(): exact at the zeros, NaN at the infinities
f64_sin(a) ==
    IF IsNaN(a) \/ IsInf(a) THEN NaN ELSE IF IsZero(a) THEN a ELSE Inexact

\* a.cos()
f64_cos(a) ==
    IF IsNaN(a) \/ IsInf(a) THEN NaN ELSE IF IsZero(a) THEN <<1, 1>> ELSE Inexact

\* a.asin()
f64_asin(a) ==
    IF IsNaN(a) THEN NaN
    ELSE IF IsZero(a) THEN a
    ELSE IF IsInf(a) \/ Abs(a[1]) > Den(a) THEN NaN
    ELSE Inexact

\* a.acos()
f64_acos(a) ==
    IF IsNaN(a) THEN NaN
    ELSE IF a = <<1, 1>> THEN PZero
    ELSE IF IsInf(a) \/ Abs(a[1]) > Den(a) THEN NaN
    ELSE Inexact

\* a.atan()
f64_atan(a) == IF IsNaN(a) \/ IsZero(a) THEN a ELSE Inexact

\* a.to_degrees(), a.to_radians(): a scaling by a positive inexact constant
f64_scale(a) == IF IsNaN(a) \/ IsZero(a) \/ IsInf(a) THEN a ELSE Inexact

\* a.ln()
f64_ln(a) ==
    IF IsNaN(a) THEN NaN
    ELSE IF IsZero(a) THEN NInf
    ELSE IF SignBit(a) THEN NaN
    ELSE IF a = PInf THEN PInf
    ELSE IF a = <<1, 1>> THEN PZero
    ELSE Inexact

\* The arguments whose a.ln() / 10.0.ln() and a.ln() / 2.0.ln() are whole
\* numbers in double arithmetic, with those quotients.
Log10Exact == {<<<<10, 1>>, <<1, 1>>>>, <<<<100, 1>>, <<2, 1>>>>}

Log2Exact ==
    {<<<<2, 1>>, <<1, 1>>>>, <<<<4, 1>>, <<2, 1>>>>, <<<<8, 1>>, <<3, 1>>>>,
     <<<<16, 1>>, <<4, 1>>>>, <<<<32, 1>>, <<5, 1>>>>, <<<<64, 1>>, <<6, 1>>>>,
     <<<<128, 1>>, <<7, 1>>>>, <<<<256, 1>>, <<8, 1>>>>, <<<<512, 1>>, <<9, 1>>>>,
     <<<<1, 2>>, <<-1, 1>>>>, <<<<1, 4>>, <<-2, 1>>>>}

\* a.log(base) == a.ln() / base.ln(), for base 10.0 and 2.0
f64_log(a, table) ==
    IF \E e \in table : e[1] = a
    THEN (CHOOSE e \in table : e[1] = a)[2]
    ELSE f64_ln(a)

(* ------------------------- characters and lines ------------------------ *)

DigitChars == <<"0", "1", "2", "3", "4", "5", "6", "7", "8", "9">>

Digits == {DigitChars[i] : i \in 1..10}

DigitVal(c) == (CHOOSE i \in 1..10 : DigitChars[i] = c) - 1

\* The upper-case form of a lower-case ASCII letter.
ToUpper(c) ==
    CASE c = "a" -> "A" [] c = "f" -> "F" [] c = "i" -> "I" [] c = "n" -> "N"
      [] c = "t" -> "T" [] c = "y" -> "Y"

\* The characters of s from position start on are the lower-case word w, each
\* in either case.
EqIgnoreCase(s, start, w) ==
    /\ Len(s) - start + 1 = Len(w)
    /\ \A i \in 1..Len(w) :
          s[start + i - 1] = w[i] \/ s[start + i - 1] = ToUpper(w[i])

\* The first position >= i of s that holds no digit (Len(s) + 1 if none).
RECURSIVE SkipDigits(_, _)
SkipDigits(s, i) ==
    IF i <= Len(s) /\ s[i] \in Digits THEN SkipDigits(s, i + 1) ELSE i

\* The number written by the digits s[i..j-1] (0 for no digit).
RECURSIVE DigitsValue(_, _, _)
DigitsValue(s, i, j) ==
    IF j <= i THEN 0 ELSE 10 * DigitsValue(s, i, j - 1) + DigitVal(s[j - 1])

RECURSIVE Pow10(_)
Pow10(k) == IF k = 0 THEN 1 ELSE 10 * Pow10(k - 1)

\* Most digits (mantissa) and largest exponent the model evaluates exactly.
MaxDigits == 4

None == [ok |-> FALSE, val |-> NaN]

Some(v) == [ok |-> TRUE, val |-> v]

\* The double nearest to m * 10^e / 10^f, when the model denotes it exactly.
DecimalValue(neg, m, f, e) ==
    LET up == IF e > f THEN e - f ELSE 0
        down == IF f > e THEN f - e ELSE 0
        v == Mk(IF neg THEN -(m * Pow10(up)) ELSE m * Pow10(up), Pow10(down), neg)
    IN  IF Representable(v) THEN v ELSE Inexact

\* The exponent s[ed..i3-1] ends the literal s, whose mantissa is the digits
\* s[start..i1-1] and s[fs..i2-1]; eneg: the exponent is written negative.
parse_exponent(s, start, i1, fs, i2, eneg, ed, i3) ==
    LET m == DigitsValue(s, start, i1) * Pow10(i2 - fs) + DigitsValue(s, fs, i2)
        e == DigitsValue(s, ed, i3)
        neg == s[1] = "-"
    IN  IF (i1 - start) + (i2 - fs) = 0 \/ i3 # Len(s) + 1 THEN None
        ELSE IF (i1 - start) + (i2 - fs) > MaxDigits \/ i3 - ed > 1 THEN Some(Inexact)
        ELSE IF eneg THEN Some(DecimalValue(neg, m, (i2 - fs) + e, 0))
        ELSE Some(DecimalValue(neg, m, i2 - fs, e))

\* After the mantissa, which ends before position i2: nothing, or e or E, an
\* optional sign and at least one digit.
parse_after_mantissa(s, start, i1, fs, i2) ==
    IF i2 <= Len(s) /\ s[i2] \in {"e", "E"}
    THEN LET ed == IF i2 + 1 <= Len(s) /\ s[i2 + 1] \in {"+", "-"}
                   THEN i2 + 2 ELSE i2 + 1
         IN  IF ed <= Len(s) /\ s[ed] \in Digits
             THEN parse_exponent(s, start, i1, fs, i2,
                                 s[i2 + 1] = "-", ed, SkipDigits(s, ed))
             ELSE None
    ELSE parse_exponent(s, start, i1, fs, i2, FALSE, i2, i2)

\* After the integer digits, which end before position i1: an optional point
\* and fraction digits.
parse_after_integer(s, start, i1) ==
    IF i1 <= Len(s) /\ s[i1] = "."
    THEN parse_after_mantissa(s, start, i1, i1 + 1, SkipDigits(s, i1 + 1))
    ELSE parse_after_mantissa(s, start, i1, i1, i1)

\* After the optional sign, from position start.
parse_unsigned(s, start) ==
    IF start <= Len(s) /\ (s[start] \in Digits \/ s[start] = ".")
    THEN parse_after_integer(s, start, SkipDigits(s, start))
    ELSE IF EqIgnoreCase(s, start, <<"i", "n", "f">>)
            \/ EqIgnoreCase(s, start, <<"i", "n", "f", "i", "n", "i", "t", "y">>)
         THEN Some(Inf(s[1] = "-"))
    ELSE IF EqIgnoreCase(s, start, <<"n", "a", "n">>) THEN Some(NaN)
    ELSE None

\* parse, had it taken decimal numbers only, no spelling of infinity or NaN.
parse_f64_decimal_only(s) ==
    IF s = <<>> \/ EqIgnoreCase(s, IF s[1] \in {"+", "-"} THEN 2 ELSE 1, <<"i", "n", "f">>)
       \/ EqIgnoreCase(s, IF s[1] \in {"+", "-"} THEN 2 ELSE 1,
                       <<"i", "n", "f", "i", "n", "i", "t", "y">>)
       \/ EqIgnoreCase(s, IF s[1] \in {"+", "-"} THEN 2 ELSE 1, <<"n", "a", "n">>)
    THEN None
    ELSE parse_unsigned(s, IF s[1] \in {"+", "-"} THEN 2 ELSE 1)

\* self.input.parse::<f64>(): [sign] (inf | infinity | nan), letters in either
\* case, or [sign] digits [. digits] [(e|E) [sign] digits] with at least one
\* mantissa digit and, after e, at least one exponent digit; nothing is trimmed.
parse_f64(s) ==
    IF s = <<>> THEN None
    ELSE parse_unsigned(s, IF s[1] \in {"+", "-"} THEN 2 ELSE 1)

(* ------------------------------- the App ------------------------------- *)

\* The program's state as one value: the fields of struct App.
App ==
    [input |-> input, character_index |-> character_index,
     input_mode |-> input_mode, stack |-> stack, undo |-> undo, redo |-> redo]

\* App::new()
new ==
    [input |-> <<>>, character_index |-> 0, input_mode |-> "Editing",
     stack |-> <<>>, undo |-> <<>>, redo |-> <<>>]

\* Vec::pop: the vector without its last element.
Pop(v) == SubSeq(v, 1, Len(v) - 1)

Top(v) == v[Len(v)]

\* reset_cursor, had it left the cursor where it is.
reset_cursor_nowhere(self) == self

reset_cursor(self) == [self EXCEPT !.character_index = 0]

\* push_number, had it recorded no snapshot.
push_number_unrecorded(self, num) ==
    [self EXCEPT !.stack = Append(self.stack, num), !.redo = <<>>]

push_number(self, num) ==
    [self EXCEPT !.undo = Append(self.undo, self.stack),
                 !.stack = Append(self.stack, num),
                 !.redo = <<>>]

push_infinity(self) ==
    [self EXCEPT !.undo = Append(self.undo, self.stack),
                 !.stack = Append(self.stack, PInf),
                 !.redo = <<>>]

\* undo, had it not kept the stack it replaces.
App_undo_forgetting(self) ==
    IF self.undo # <<>>
    THEN [self EXCEPT !.undo = Pop(self.undo), !.stack = Top(self.undo)]
    ELSE self

\* undo, had it reset the stack when there is nothing to undo.
App_undo_defaulting(self) ==
    IF self.undo # <<>>
    THEN [self EXCEPT !.undo = Pop(self.undo),
                      !.redo = Append(self.redo, self.stack),
                      !.stack = Top(self.undo)]
    ELSE [self EXCEPT !.redo = Append(self.redo, self.stack), !.stack = <<>>]

\* undo, had it kept the stack it replaces beneath the redo history.
App_undo_redo_beneath(self) ==
    IF self.undo # <<>>
    THEN [self EXCEPT !.undo = Pop(self.undo),
                      !.redo = <<self.stack>> \o self.redo,
                      !.stack = Top(self.undo)]
    ELSE self

App_undo(self) ==
    IF self.undo # <<>>
    THEN [self EXCEPT !.undo = Pop(self.undo),
                      !.redo = Append(self.redo, self.stack),
                      !.stack = Top(self.undo)]
    ELSE self

\* redo, had it not kept the stack it replaces.
App_redo_forgetting(self) ==
    IF self.redo # <<>>
    THEN [self EXCEPT !.redo = Pop(self.redo), !.stack = Top(self.redo)]
    ELSE self

App_redo(self) ==
    IF self.redo # <<>>
    THEN [self EXCEPT !.redo = Pop(self.redo),
                      !.undo = Append(self.undo, self.stack),
                      !.stack = Top(self.redo)]
    ELSE self

\* The closure process_input passes for a unary token.
unary_closure(t, a) ==
    CASE t = <<"n", "e", "g">> -> f64_neg(a)
      [] t = <<"a", "b", "s">> -> f64_abs(a)
      [] t = <<"s", "q", "r", "t">> -> f64_sqrt(a)
      [] t = <<"s", "i", "n">> -> f64_sin(a)
      [] t = <<"c", "o", "s">> -> f64_cos(a)
      [] t = <<"t", "a", "n">> -> f64_sin(a)
      [] t = <<"a", "s", "i", "n">> -> f64_asin(a)
      [] t = <<"a", "c", "o", "s">> -> f64_acos(a)
      [] t = <<"a", "t", "a", "n">> -> f64_atan(a)
      [] t = <<"d", "e", "g">> -> f64_scale(a)
      [] t = <<"r", "a", "d">> -> f64_scale(a)
      [] t = <<"r", "e", "c", "i", "p">> -> f64_div(<<1, 1>>, a)
      [] t = <<"l", "o", "g", "1", "0">> -> f64_log(a, Log10Exact)
      [] t = <<"l", "o", "g", "n">> -> f64_ln(a)
      [] t = <<"l", "o", "g", "2">> -> f64_log(a, Log2Exact)

UnaryTokens ==
    {<<"n", "e", "g">>,
     <<"a", "b", "s">>,
     <<"s", "q", "r", "t">>,
     <<"s", "i", "n">>,
     <<"c", "o", "s">>,
     <<"t", "a", "n">>,
     <<"a", "s", "i", "n">>,
     <<"a", "c", "o", "s">>,
     <<"a", "t", "a", "n">>,
     <<"d", "e", "g">>,
     <<"r", "a", "d">>,
     <<"r", "e", "c", "i", "p">>,
     <<"l", "o", "g", "1", "0">>,
     <<"l", "o", "g", "n">>,
     <<"l", "o", "g", "2">>}

\* The binary closures, had ^ raised the value beneath to the power of the top.
binary_closure_base_beneath(t, a, b) ==
    CASE t = <<"+">> -> f64_add(a, b)
      [] t = <<"-">> -> f64_sub(a, b)
      [] t = <<"/">> -> f64_div(a, b)
      [] t = <<"*">> -> f64_mul(a, b)
      [] t = <<"%">> -> f64_rem(a, b)
      [] t = <<"^">> -> f64_powf(a, b)

\* The closure process_input passes for a binary token: a is the value that
\* was beneath, b the value that was on top.
binary_closure(t, a, b) ==
    CASE t = <<"+">> -> f64_add(a, b)
      [] t = <<"-">> -> f64_sub(a, b)
      [] t = <<"/">> -> f64_div(a, b)
      [] t = <<"*">> -> f64_mul(a, b)
      [] t = <<"%">> -> f64_rem(a, b)
      [] t = <<"^">> -> f64_powf(b, a)

BinaryTokens == {<<"+">>, <<"-">>, <<"/">>, <<"*">>, <<"%">>, <<"^">>}

perform_single_operand_operation(self, operation) ==
    IF self.stack = <<>> THEN self
    ELSE LET a == Top(self.stack)
             result == unary_closure(operation, a)
         IN  [self EXCEPT !.undo = Append(self.undo, self.stack),
                          !.stack = Append(Pop(self.stack), result),
                          !.redo = <<>>]

\* perform_operation, had it taken the snapshot before the arity check.
perform_operation_snapshot_first(self, operation) ==
    IF Len(self.stack) < 2
    THEN [self EXCEPT !.undo = Append(self.undo, self.stack)]
    ELSE LET b == Top(self.stack)
             a == Top(Pop(self.stack))
             result == binary_closure(operation, a, b)
         IN  [self EXCEPT !.undo = Append(self.undo, self.stack),
                          !.stack = Append(Pop(Pop(self.stack)), result),
                          !.redo = <<>>]

\* perform_operation, had it popped a before b.
perform_operation_swapped(self, operation) ==
    IF Len(self.stack) < 2 THEN self
    ELSE LET a == Top(self.stack)
             b == Top(Pop(self.stack))
             result == binary_closure(operation, a, b)
         IN  [self EXCEPT !.undo = Append(self.undo, self.stack),
                          !.stack = Append(Pop(Pop(self.stack)), result),
                          !.redo = <<>>]

\* perform_operation, had it read a without popping it.
perform_operation_one_pop(self, operation) ==
    IF Len(self.stack) < 2 THEN self
    ELSE LET b == Top(self.stack)
             a == Top(Pop(self.stack))
             result == binary_closure(operation, a, b)
         IN  [self EXCEPT !.undo = Append(self.undo, self.stack),
                          !.stack = Append(Pop(self.stack), result),
                          !.redo = <<>>]

perform_operation(self, operation) ==
    IF Len(self.stack) < 2 THEN self
    ELSE LET b == Top(self.stack)
             a == Top(Pop(self.stack))
             result == binary_closure(operation, a, b)
         IN  [self EXCEPT !.undo = Append(self.undo, self.stack),
                          !.stack = Append(Pop(Pop(self.stack)), result),
                          !.redo = <<>>]

\* perform_clone, had it pushed a once.
perform_clone_single_push(self) ==
    IF self.stack = <<>> THEN self
    ELSE LET a == Top(self.stack)
         IN  [self EXCEPT !.undo = Append(self.undo, self.stack),
                          !.stack = Append(Pop(self.stack), a),
                          !.redo = <<>>]

perform_clone(self) ==
    IF self.stack = <<>> THEN self
    ELSE LET a == Top(self.stack)
         IN  [self EXCEPT !.undo = Append(self.undo, self.stack),
                          !.stack = Append(Append(Pop(self.stack), a), a),
                          !.redo = <<>>]

\* a.round() for a finite a >= 0 below 2^31, as an integer: the nearest
\* integer, halves away from zero.
RoundAbs(a) == (2 * Abs(a[1]) + Den(a)) \div (2 * Den(a))

\* A u64 is the tuple of its four 16-bit limbs, lowest first.
Limb == Pow2(16)

\* The u64 of an integer n, 0 <= n < 2^31.
u64(n) == <<n % Limb, n \div Limb, 0, 0>>

\* u64::MAX
U64_MAX == <<Limb - 1, Limb - 1, Limb - 1, Limb - 1>>

\* abs_a.round() as u64: the cast saturates, NaN gives 0 and +Infinity (like
\* every double of 2^64 and more) u64::MAX.
round_as_u64(abs_a) ==
    IF IsNaN(abs_a) THEN u64(0)
    ELSE IF Len(abs_a) = 4 THEN abs_a
    ELSE IF IsInf(abs_a) THEN U64_MAX
    ELSE u64(RoundAbs(abs_a))

\* The number of bits of a limb, and of trailing zero bits of a limb # 0.
RECURSIVE Bits(_)
Bits(x) == IF x = 0 THEN 0 ELSE 1 + Bits(x \div 2)

RECURSIVE Zeros(_)
Zeros(x) == IF x % 2 = 1 THEN 0 ELSE 1 + Zeros(x \div 2)

\* 64 - u.leading_zeros() and u.trailing_zeros(), for u # 0.
BitLen(u) ==
    IF u[4] # 0 THEN 48 + Bits(u[4])
    ELSE IF u[3] # 0 THEN 32 + Bits(u[3])
    ELSE IF u[2] # 0 THEN 16 + Bits(u[2])
    ELSE Bits(u[1])

TrailingZeros(u) ==
    IF u[1] # 0 THEN Zeros(u[1])
    ELSE IF u[2] # 0 THEN 16 + Zeros(u[2])
    ELSE IF u[3] # 0 THEN 32 + Zeros(u[3])
    ELSE 48 + Zeros(u[4])

\* result as f64: exact when the bits of result from its highest to its
\* lowest set bit fit the 53 bits of a double's significand (rounded
\* otherwise, which the model does not denote).
u64_as_f64(u) ==
    IF u[3] = 0 /\ u[4] = 0 /\ u[2] < Pow2(15) THEN Mk(u[2] * Limb + u[1], 1, FALSE)
    ELSE IF BitLen(u) - TrailingZeros(u) <= 53 THEN u
    ELSE Inexact

\* result *= i for 0 < i < 2^15: val is the low 64 bits of the product and
\* overflow tells that the product has more.
u64_mul(result, i) ==
    LET c1 == (result[1] * i) \div Limb
        c2 == (result[2] * i + c1) \div Limb
        c3 == (result[3] * i + c2) \div Limb
    IN  [val |-> <<(result[1] * i) % Limb, (result[2] * i + c1) % Limb,
                   (result[3] * i + c2) % Limb, (result[4] * i + c3) % Limb>>,
         overflow |-> (result[4] * i + c3) \div Limb # 0]

\* The rounds of the loop the model follows: those that n asks for, up to
\* the 66th.  66! is a multiple of 2^64, so the result is 0 after the 66th
\* round, stays 0 in every later one, and no later product overflows.
Rounds(n) == IF n[2] = 0 /\ n[3] = 0 /\ n[4] = 0 /\ n[1] < 66 THEN n[1] ELSE 66

\* for i in lo..=hi { result *= i; } on acc: result is what the wrapping
\* multiplication leaves, overflow tells that some product overflowed.  The
\* rounds are taken in their order, the first half of them and then the
\* second; on a result of 0 the rounds left change nothing.
RECURSIVE factorial_loop(_, _, _)
factorial_loop(lo, hi, acc) ==
    IF lo > hi \/ acc.result = u64(0) THEN acc
    ELSE IF lo = hi
         THEN [result |-> u64_mul(acc.result, lo).val,
               overflow |-> acc.overflow \/ u64_mul(acc.result, lo).overflow]
    ELSE factorial_loop((lo + hi) \div 2 + 1, hi,
                        factorial_loop(lo, (lo + hi) \div 2, acc))

\* factorial, had its range been 1..n, without n.
factorial_exclusive(n) ==
    factorial_loop(1, Rounds(n) - 1, [result |-> u64(1), overflow |-> FALSE])

\* fn factorial(n: u64) -> u64
factorial(n) ==
    factorial_loop(1, Rounds(n), [result |-> u64(1), overflow |-> FALSE])

\* The operand perform_factorial hands to factorial.
rounded_a(self) == round_as_u64(f64_abs(Top(self.stack)))

\* perform_factorial, had it not taken the absolute value: the cast of a
\* negative double to u64 gives 0.
perform_factorial_no_abs(self) ==
    IF self.stack = <<>> THEN self
    ELSE LET a == Top(self.stack)
             n == IF SignBit(a) THEN u64(0) ELSE round_as_u64(a)
             result == factorial(n).result
         IN  [self EXCEPT !.undo = Append(self.undo, self.stack),
                          !.stack = Append(Pop(self.stack), u64_as_f64(result)),
                          !.redo = <<>>]

perform_factorial(self) ==
    IF self.stack = <<>> THEN self
    ELSE LET result == factorial(rounded_a(self)).result
         IN  [self EXCEPT !.undo = Append(self.undo, self.stack),
                          !.stack = Append(Pop(self.stack), u64_as_f64(result)),
                          !.redo = <<>>]

\* perform_factorial reaches a multiplication that overflows the u64: with
\* overflow checks the program panics there (attempt to multiply with
\* overflow), the snapshot pushed and the operand popped.
perform_factorial_overflows(self) ==
    self.stack # <<>> /\ factorial(rounded_a(self)).overflow

\* perform_swap, had it pushed a before b.
perform_swap_in_order(self) ==
    IF Len(self.stack) < 2 THEN self
    ELSE LET b == Top(self.stack)
             a == Top(Pop(self.stack))
         IN  [self EXCEPT !.undo = Append(self.undo, self.stack),
                          !.stack = Append(Append(Pop(Pop(self.stack)), a), b),
                          !.redo = <<>>]

perform_swap(self) ==
    IF Len(self.stack) < 2 THEN self
    ELSE LET b == Top(self.stack)
             a == Top(Pop(self.stack))
         IN  [self EXCEPT !.undo = Append(self.undo, self.stack),
                          !.stack = Append(Append(Pop(Pop(self.stack)), b), a),
                          !.redo = <<>>]

\* perform_clear, had it taken no snapshot.
perform_clear_forgetting(self) == [self EXCEPT !.stack = <<>>]

\* perform_clear, had it returned early on an empty stack as the others do.
perform_clear_early_return(self) ==
    IF self.stack = <<>> THEN self
    ELSE [self EXCEPT !.undo = Append(self.undo, self.stack),
                      !.stack = <<>>]

perform_clear(self) ==
    [self EXCEPT !.undo = Append(self.undo, self.stack),
                 !.stack = <<>>]

\* perform_drop, had it removed the bottom of the stack.
perform_drop_bottom(self) ==
    IF self.stack = <<>> THEN self
    ELSE [self EXCEPT !.undo = Append(self.undo, self.stack),
                      !.stack = Tail(self.stack)]

perform_drop(self) ==
    IF self.stack = <<>> THEN self
    ELSE [self EXCEPT !.undo = Append(self.undo, self.stack),
                      !.stack = Pop(self.stack)]

\* as_str, had it dropped a leading space.
as_str_trimmed(s) == IF s # <<>> /\ s[1] = " " THEN Tail(s) ELSE s

\* String::as_str: the line itself, byte for byte.
as_str(s) == s

\* The tokens of the match of process_input that are no closure's.
SwapToken == <<"s", "w", "a", "p">>

ClearToken == <<"c", "l", "e", "a", "r">>

DropToken == <<"d", "r", "o", "p">>

UndoToken == <<"u", "n", "d", "o">>

RedoToken == <<"r", "e", "d", "o">>

InfToken == <<"i", "n", "f">>

FactorialToken == <<"!">>

DuplicateToken == <<>>

\* The match of process_input on self.input.as_str().
dispatch(self) ==
    LET t == as_str(self.input) IN
    IF t \in BinaryTokens THEN perform_operation(self, t)
    ELSE IF t = DuplicateToken THEN perform_clone(self)
    ELSE IF t \in UnaryTokens THEN perform_single_operand_operation(self, t)
    ELSE IF t = FactorialToken THEN perform_factorial(self)
    ELSE IF t = SwapToken THEN perform_swap(self)
    ELSE IF t = ClearToken THEN perform_clear(self)
    ELSE IF t = DropToken THEN perform_drop(self)
    ELSE IF t = UndoToken THEN App_undo(self)
    ELSE IF t = RedoToken THEN App_redo(self)
    ELSE IF t = InfToken THEN push_infinity(self)
    ELSE self

process_input(self) ==
    LET num == parse_f64(self.input)
        done == IF num.ok THEN push_number(self, num.val) ELSE dispatch(self)
    IN  reset_cursor([done EXCEPT !.input = <<>>])

\* process_input reaches an arithmetic overflow: the line is `!` and the
\* product of perform_factorial overflows.  (Every pop().unwrap() follows a
\* check of the stack's length in the same method and finds a value.)
process_input_overflows(self) ==
    /\ ~parse_f64(self.input).ok
    /\ as_str(self.input) = FactorialToken
    /\ perform_factorial_overflows(self)

(* ----------------------------- line editing ---------------------------- *)

\* clamp_cursor, had it let every position through.
clamp_cursor_unclamped(self, new_cursor_pos) == new_cursor_pos

\* usize::clamp(0, self.input.chars().count())
clamp_cursor(self, new_cursor_pos) ==
    IF new_cursor_pos > Len(self.input) THEN Len(self.input) ELSE new_cursor_pos

move_cursor_right(self) ==
    [self EXCEPT !.character_index = clamp_cursor(self, self.character_index + 1)]

\* String::insert at the byte index of character number character_index, then
\* move_cursor_right.
enter_char(self, new_char) ==
    LET i == IF self.character_index > Len(self.input)
             THEN Len(self.input) ELSE self.character_index
        line == SubSeq(self.input, 1, i) \o <<new_char>>
                \o SubSeq(self.input, i + 1, Len(self.input))
    IN  move_cursor_right([self EXCEPT !.input = line])

\* The key presses Char(l[1]), ..., Char(l[Len(l)]) in Editing mode.
RECURSIVE type_line(_, _)
type_line(self, l) ==
    IF l = <<>> THEN self
    ELSE enter_char(type_line(self, Pop(l)), Top(l))

\* usize::saturating_sub(1), then clamp_cursor.
move_cursor_left(self) ==
    LET cursor_moved_left ==
            IF self.character_index = 0 THEN 0 ELSE self.character_index - 1
    IN  [self EXCEPT !.character_index = clamp_cursor(self, cursor_moved_left)]

\* Iterator::take and Iterator::skip on the characters of a line.
take(s, k) == SubSeq(s, 1, IF k > Len(s) THEN Len(s) ELSE k)

skip(s, k) == SubSeq(s, (IF k > Len(s) THEN Len(s) ELSE k) + 1, Len(s))

\* delete_char, had it dropped the character under the cursor.
delete_char_under_cursor(self) ==
    IF self.character_index # 0
    THEN move_cursor_left(
             [self EXCEPT !.input = take(self.input, self.character_index)
                                        \o skip(self.input, self.character_index + 1)])
    ELSE self

delete_char(self) ==
    IF self.character_index # 0
    THEN LET current_index == self.character_index
             from_left_to_current_index == current_index - 1
             before_char_to_delete == take(self.input, from_left_to_current_index)
             after_char_to_delete == skip(self.input, current_index)
         IN  move_cursor_left(
                 [self EXCEPT !.input = before_char_to_delete \o after_char_to_delete])
    ELSE self

(* ------------------------------ key events ----------------------------- *)

\* A key event is its code and its kind.  The codes the match of run names,
\* and one it does not.
Char(c) == <<"Char", c>>

EnterKey == <<"Enter">>

Backspace == <<"Backspace">>

Left == <<"Left">>

Right == <<"Right">>

Esc == <<"Esc">>

Tab == <<"Tab">>

KeyEventKinds == {"Press", "Repeat", "Release"}

Press(code) == [code |-> code, kind |-> "Press"]

\* The match on the code of a key pressed in Editing mode.
on_key_editing(self, key) ==
    CASE key.code = EnterKey -> process_input(self)
      [] key.code[1] = "Char" -> enter_char(self, key.code[2])
      [] key.code = Backspace -> delete_char(self)
      [] key.code = Left -> move_cursor_left(self)
      [] key.code = Right -> move_cursor_right(self)
      [] key.code = Esc -> [self EXCEPT !.input_mode = "Normal"]
      [] OTHER -> self

\* The turn, had Normal mode kept the keys of Editing mode but e.
on_key_modeless(self, key) ==
    IF self.input_mode = "Normal" /\ key.code = Char("e")
    THEN [self EXCEPT !.input_mode = "Editing"]
    ELSE IF key.kind = "Press" THEN on_key_editing(self, key)
    ELSE self

\* One turn of the loop of run that goes on to the next: the App after the
\* key event.  (The turn that returns is run_returns.)
on_key(self, key) ==
    IF self.input_mode = "Normal"
    THEN IF key.code = Char("e") THEN [self EXCEPT !.input_mode = "Editing"]
         ELSE self
    ELSE IF key.kind = "Press" THEN on_key_editing(self, key)
    ELSE self

\* The turn returns Ok(()) from run: the key q in Normal mode.
run_returns(self, key) == self.input_mode = "Normal" /\ key.code = Char("q")

(* ------------------------------ the machine ---------------------------- *)

\* The lines the user types in this model: number literals, the whole
\* vocabulary of process_input, and lines that are neither.
NumberLines == {<<"2">>, <<"3">>, <<"0">>}

StackTokens == {SwapToken, ClearToken, DropToken, DuplicateToken}

HistoryTokens == {UndoToken, RedoToken}

OtherLines ==
    {<<"S", "W", "A", "P">>, <<"U", "n", "d", "o">>, <<" ", "+">>, <<"f", "o", "o">>}

Lines ==
    NumberLines \cup BinaryTokens \cup UnaryTokens \cup {FactorialToken}
    \cup StackTokens \cup HistoryTokens \cup OtherLines

\* The cells of a history: one for each snapshot and one for each value in it.
RECURSIVE Cells(_)
Cells(h) == IF h = <<>> THEN 0 ELSE Cells(Pop(h)) + 1 + Len(Top(h))

\* The states the model keeps: every stack value denoted exactly, and
\* histories of at most MaxCells cells.
InBounds(self) ==
    /\ \A i \in 1..Len(self.stack) : Representable(self.stack[i])
    /\ Cells(self.undo) + Cells(self.redo) <= MaxCells

\* The step that leaves the program in state self.
Becomes(self) ==
    /\ input' = self.input
    /\ character_index' = self.character_index
    /\ input_mode' = self.input_mode
    /\ stack' = self.stack
    /\ undo' = self.undo
    /\ redo' = self.redo

Init ==
    /\ input = new.input
    /\ character_index = new.character_index
    /\ input_mode = new.input_mode
    /\ stack = new.stack
    /\ undo = new.undo
    /\ redo = new.redo
    /\ overflow_checks \in BOOLEAN
    /\ panicked = FALSE
    /\ returned = FALSE
    /\ frame = <<>>

\* run is at event::read(), about to take the next key event.
Reading == ~panicked /\ ~returned /\ frame = <<>>

\* Editing mode, the keys Char(c) for the characters of line l, typed on the
\* empty input line.
TypeLine(l) ==
    /\ Reading
    /\ input_mode = "Editing"
    /\ input = <<>>
    /\ Becomes(type_line(App, l))
    /\ UNCHANGED <<overflow_checks, panicked, returned, frame>>

\* process_input panics: the build checks overflow and the line overflows.
Panics(self) == overflow_checks /\ process_input_overflows(self)

\* Editing mode, the key Enter, process_input returning.
Enter ==
    /\ Reading
    /\ input_mode = "Editing"
    /\ ~Panics(App)
    /\ InBounds(process_input(App))
    /\ Becomes(process_input(App))
    /\ UNCHANGED <<overflow_checks, panicked, returned, frame>>

\* Editing mode, the key Enter, process_input panicking: the process ends
\* (the App is kept as the key found it).
EnterPanic ==
    /\ Reading
    /\ input_mode = "Editing"
    /\ Panics(App)
    /\ panicked' = TRUE
    /\ UNCHANGED <<input, character_index, input_mode, stack, undo, redo,
                   overflow_checks, returned, frame>>

Next ==
    \/ \E l \in Lines : TypeLine(l)
    \/ Enter
    \/ EnterPanic

Spec == Init /\ [][Next]_vars

(* ----------------------- the machine, more literals -------------------- *)

\* The same program with more numbers typed and less done to them: the
\* whole numbers around the largest factorial of a u64, signed numbers and
\* halves, and the spellings of the infinities and of NaN.
WholeLines ==
    {<<"0">>, <<"1">>, <<"2">>, <<"3">>, <<"4">>, <<"5">>,
     <<"6">>, <<"7">>, <<"8">>, <<"9">>, <<"1", "0">>, <<"1", "1">>,
     <<"1", "2">>, <<"1", "3">>, <<"1", "4">>, <<"1", "5">>, <<"1", "6">>, <<"1", "7">>,
     <<"1", "8">>, <<"1", "9">>, <<"2", "0">>, <<"2", "1">>, <<"2", "2">>, <<"2", "5">>,
     <<"6", "5">>, <<"6", "6">>, <<"6", "7">>}

SignedLines ==
    {<<"-", "5">>, <<"-", "2", "1">>, <<"-", "1", "0">>, <<"-", "0">>, <<"2", ".", "5">>, <<"-", "2", ".", "5">>,
     <<".", "5">>, <<"2", "0", ".", "5">>, <<"5", ".">>, <<"1", "e", "1">>}

SpecialLines ==
    {<<"i", "n", "f">>, <<"-", "i", "n", "f">>, <<"n", "a", "n">>, <<"I", "N", "F">>, <<"+", "i", "n", "f">>, <<"i", "n", "f", "i", "n", "i", "t", "y">>,
     <<"N", "a", "N">>}

\* Lines that are no literal, though close to one.
NearLines == {<<".">>, <<"e", "1">>, <<"1", "e">>, <<"i", "n">>}

LiteralTokens ==
    {FactorialToken, DuplicateToken, <<"/">>, UndoToken, RedoToken}

LiteralLines ==
    WholeLines \cup SignedLines \cup SpecialLines \cup NearLines
    \cup LiteralTokens

\* Largest size of the two histories together in this machine.
MaxLiteralCells == 3

EnterLiteral ==
    /\ Enter
    /\ Cells(process_input(App).undo) + Cells(process_input(App).redo)
          <= MaxLiteralCells

NextLiterals ==
    \/ \E l \in LiteralLines : TypeLine(l)
    \/ EnterLiteral
    \/ EnterPanic

SpecLiterals == Init /\ [][NextLiterals]_vars

(* --------------------- the machine, round by round --------------------- *)

\* The same program with the loop of factorial taken one round in each step.
\* frame holds the call in flight: the operand n, the range 1..=n as the
\* value i it yields next and its flag exhausted, and the product result.

\* a < b, a + 1 (modulo 2^64) and a - b (for b <= a) on u64.
u64_lt(a, b) ==
    \/ a[4] < b[4]
    \/ a[4] = b[4] /\ a[3] < b[3]
    \/ a[4] = b[4] /\ a[3] = b[3] /\ a[2] < b[2]
    \/ a[4] = b[4] /\ a[3] = b[3] /\ a[2] = b[2] /\ a[1] < b[1]

u64_succ(a) ==
    IF a[1] + 1 < Limb THEN <<a[1] + 1, a[2], a[3], a[4]>>
    ELSE IF a[2] + 1 < Limb THEN <<0, a[2] + 1, a[3], a[4]>>
    ELSE IF a[3] + 1 < Limb THEN <<0, 0, a[3] + 1, a[4]>>
    ELSE <<0, 0, 0, (a[4] + 1) % Limb>>

u64_sub(a, b) ==
    LET b1 == IF a[1] < b[1] THEN 1 ELSE 0
        b2 == IF a[2] < b[2] + b1 THEN 1 ELSE 0
        b3 == IF a[3] < b[3] + b2 THEN 1 ELSE 0
    IN  <<(a[1] - b[1]) % Limb, (a[2] - b[2] - b1) % Limb,
          (a[3] - b[3] - b2) % Limb, (a[4] - b[4] - b3) % Limb>>

\* RangeInclusive::is_empty
range_is_empty(f) == f.exhausted \/ u64_lt(f.n, f.i)

\* RangeInclusive::next, had it stepped past the end of the range.
range_next_past_end(f) == [f EXCEPT !.i = u64_succ(f.i)]

\* RangeInclusive::next on a range that is not empty: the range moves on by
\* one while i < n, and is exhausted when it yields n.
range_next(f) ==
    IF u64_lt(f.i, f.n) THEN [f EXCEPT !.i = u64_succ(f.i)]
    ELSE [f EXCEPT !.exhausted = TRUE]

\* result *= i.  A product that is not 0 has had at most 66 factors.
round_product(f) ==
    IF f.result = u64(0) THEN [val |-> u64(0), overflow |-> FALSE]
    ELSE u64_mul(f.result, f.i[1])

\* The rounds the machine takes one by one at the end of a long loop.
LastRounds == 3

\* The rounds still to take, i included, are more than LastRounds + 1.
FarFromEnd(f) ==
    LET left == u64_sub(f.n, f.i)
    IN  left[4] # 0 \/ left[3] # 0 \/ left[2] # 0 \/ left[1] > LastRounds

\* The rounds from i to n - LastRounds - 1 of a loop whose result is 0: each
\* multiplies 0 by i, so that all they change is i.
rounds_of_zero(f) == [f EXCEPT !.i = u64_sub(f.n, u64(LastRounds))]

\* The lines typed in this machine.
RoundLines ==
    {<<"0">>, <<"3">>, <<"2", "1">>, <<"6", "7">>, <<"7", "0">>, <<"i", "n", "f">>,
     <<"n", "a", "n">>, <<"-", "2", ".", "5">>, FactorialToken, UndoToken}

\* Largest size of the two histories together in this machine.
MaxRoundCells == 5

\* process_input is about to call factorial.
CallsFactorial(self) ==
    /\ ~parse_f64(self.input).ok
    /\ as_str(self.input) = FactorialToken
    /\ self.stack # <<>>

\* Editing mode, the key Enter on a line that calls no factorial.
EnterAtOnce ==
    /\ ~CallsFactorial(App)
    /\ Enter
    /\ Cells(process_input(App).undo) + Cells(process_input(App).redo)
          <= MaxRoundCells

\* Editing mode, the key Enter on the line `!`: perform_factorial up to the
\* call of factorial.
CallFactorial ==
    /\ Reading
    /\ input_mode = "Editing"
    /\ CallsFactorial(App)
    /\ Cells(Append(undo, stack)) <= MaxRoundCells
    /\ undo' = Append(undo, stack)
    /\ stack' = Pop(stack)
    /\ frame' = <<[n |-> rounded_a(App), i |-> u64(1), exhausted |-> FALSE,
                   result |-> u64(1)]>>
    /\ UNCHANGED <<input, character_index, input_mode, redo, overflow_checks,
                   panicked, returned>>

\* One round of the loop.
Round ==
    /\ frame # <<>>
    /\ ~panicked
    /\ ~range_is_empty(frame[1])
    /\ ~(frame[1].result = u64(0) /\ FarFromEnd(frame[1]))
    /\ ~(overflow_checks /\ round_product(frame[1]).overflow)
    /\ frame' = <<range_next([frame[1] EXCEPT !.result = round_product(frame[1]).val])>>
    /\ UNCHANGED <<input, character_index, input_mode, stack, undo, redo,
                   overflow_checks, panicked, returned>>

\* The rounds of a long loop between the one that leaves 0 and the last
\* ones, in one step.
RoundsOfZero ==
    /\ frame # <<>>
    /\ ~panicked
    /\ ~range_is_empty(frame[1])
    /\ frame[1].result = u64(0)
    /\ FarFromEnd(frame[1])
    /\ frame' = <<rounds_of_zero(frame[1])>>
    /\ UNCHANGED <<input, character_index, input_mode, stack, undo, redo,
                   overflow_checks, panicked, returned>>

\* A round whose product overflows, in a build that checks: the panic.
RoundPanic ==
    /\ frame # <<>>
    /\ ~panicked
    /\ ~range_is_empty(frame[1])
    /\ overflow_checks
    /\ round_product(frame[1]).overflow
    /\ panicked' = TRUE
    /\ UNCHANGED <<input, character_index, input_mode, stack, undo, redo,
                   overflow_checks, returned, frame>>

\* The loop is over: factorial returns, perform_factorial pushes the result
\* and process_input clears the line.
ReturnFactorial ==
    /\ frame # <<>>
    /\ ~panicked
    /\ range_is_empty(frame[1])
    /\ stack' = Append(stack, u64_as_f64(frame[1].result))
    /\ redo' = <<>>
    /\ input' = <<>>
    /\ character_index' = 0
    /\ frame' = <<>>
    /\ UNCHANGED <<input_mode, undo, overflow_checks, panicked, returned>>

\* The steps inside process_input.
Running == Round \/ RoundsOfZero \/ RoundPanic \/ ReturnFactorial

NextRounds ==
    \/ \E l \in RoundLines : TypeLine(l)
    \/ EnterAtOnce
    \/ CallFactorial
    \/ Round
    \/ RoundsOfZero
    \/ RoundPanic
    \/ ReturnFactorial

\* The program is one thread: once in the loop it keeps taking its steps.
SpecRounds == Init /\ [][NextRounds]_vars /\ WF_vars(Running)

(* ------------------------ the machine, key by key ---------------------- *)

\* The same program taking one key event in each step, in both input modes,
\* on short lines of few characters: numbers (2, 22, 2e2), the empty line
\* that duplicates, and lines that are nothing.  None of the lines is `!`, so
\* that no turn panics.
KeyChars == {"2", "e", "q"}

KeyCodes ==
    {Char(c) : c \in KeyChars} \cup {EnterKey, Backspace, Left, Right, Esc, Tab}

KeyEvents == [code : KeyCodes, kind : KeyEventKinds]

\* Longest input line, and largest size of the two histories together, in
\* this machine.
MaxLine == 3

MaxKeyCells == 3

\* A turn of the loop of run that handles the key event and goes on.
Turn(key) ==
    /\ Reading
    /\ ~run_returns(App, key)
    /\ Becomes(on_key(App, key))
    /\ UNCHANGED <<overflow_checks, panicked, returned, frame>>

\* Normal mode: any key but q, of any kind.
NormalKey(key) == input_mode = "Normal" /\ Turn(key)

\* Normal mode, the key q of any kind: run returns.
NormalQuit(key) ==
    /\ Reading
    /\ run_returns(App, key)
    /\ returned' = TRUE
    /\ UNCHANGED <<input, character_index, input_mode, stack, undo, redo,
                   overflow_checks, panicked, frame>>

\* Editing mode, a key pressed.
EditingChar(c) ==
    /\ input_mode = "Editing"
    /\ Len(input) < MaxLine
    /\ Turn(Press(Char(c)))

EditingBackspace == input_mode = "Editing" /\ Turn(Press(Backspace))

EditingLeft == input_mode = "Editing" /\ Turn(Press(Left))

EditingRight == input_mode = "Editing" /\ Turn(Press(Right))

EditingEsc == input_mode = "Editing" /\ Turn(Press(Esc))

EditingEnter ==
    /\ input_mode = "Editing"
    /\ ~Panics(App)
    /\ InBounds(process_input(App))
    /\ Cells(process_input(App).undo) + Cells(process_input(App).redo) <= MaxKeyCells
    /\ Turn(Press(EnterKey))

\* Editing mode, a key the match does not name, or one that is not pressed
\* (repeated, released).
EditingIgnored(key) ==
    /\ input_mode = "Editing"
    /\ key.code = Tab \/ key.kind # "Press"
    /\ Turn(key)

NextKeys ==
    \/ \E key \in KeyEvents : NormalKey(key)
    \/ \E key \in KeyEvents : NormalQuit(key)
    \/ \E c \in KeyChars : EditingChar(c)
    \/ EditingBackspace
    \/ EditingLeft
    \/ EditingRight
    \/ EditingEsc
    \/ EditingEnter
    \/ \E key \in KeyEvents : EditingIgnored(key)

SpecKeys == Init /\ [][NextKeys]_vars

(* ------------------------------ properties ----------------------------- *)

\* The state Enter leaves, whether or not the model keeps it.
AfterEnter == process_input(App)

\* The operands an operator takes from the stack.
Arity(t) ==
    IF t \in BinaryTokens \cup {SwapToken} THEN 2
    ELSE IF t \in UnaryTokens \cup {FactorialToken, DuplicateToken, DropToken} THEN 1
    ELSE 0

Operators ==
    BinaryTokens \cup UnaryTokens
    \cup {SwapToken, FactorialToken, DuplicateToken, DropToken}

Vocabulary == Operators \cup {ClearToken, UndoToken, RedoToken, InfToken}

\* The line is a mutating action that is applied to the stack stk: a number
\* to push, clear, or an operator with its operands present.
Applied(line, stk) ==
    \/ parse_f64(line).ok
    \/ line = ClearToken
    \/ line \in Operators /\ Len(stk) >= Arity(line)

\* C1: an operator of arity k >= 1 entered on a stack of fewer than k values
\* leaves the stack, the undo history and the redo history as they were.
C1_RejectedOperatorChangesNothing ==
    (input \in Operators /\ Len(stack) < Arity(input))
    => /\ AfterEnter.stack = stack
       /\ AfterEnter.undo = undo
       /\ AfterEnter.redo = redo

\* A binary operator is about to be rejected, with both histories non-empty.
C1_Witness ==
    /\ input \in BinaryTokens
    /\ Len(stack) = 1
    /\ undo # <<>>
    /\ redo # <<>>

\* The state after the line l is typed on the empty input line and entered.
AfterLine(self, l) == process_input(type_line(self, l))

\* C2: after a mutating action that is applied, undo gives back the stack of
\* before the action, and redo then the stack of after it.
C2_UndoRedoRoundTrip ==
    Applied(input, stack)
    => LET acted == AfterEnter
           undone == AfterLine(acted, UndoToken)
           redone == AfterLine(undone, RedoToken)
       IN  /\ undone.stack = stack
           /\ redone.stack = acted.stack

\* clear is about to empty a non-empty stack while the redo history holds a
\* snapshot.
C2_Witness ==
    /\ input = ClearToken
    /\ stack # <<>>
    /\ redo # <<>>

\* C3: a mutating action that is applied leaves the redo history empty.
C3_MutationClearsRedo == Applied(input, stack) => AfterEnter.redo = <<>>

\* C4: a mutating action that is applied appends the stack of before the
\* action to the undo history, and nothing else changes there.
C4_MutationRecordsSnapshot ==
    Applied(input, stack) => AfterEnter.undo = Append(undo, stack)

\* clear is about to run on an empty stack, the undo history holding
\* snapshots already.
C4_Witness ==
    /\ input = ClearToken
    /\ stack = <<>>
    /\ undo # <<>>

\* C5: undo on an empty undo history, and redo on an empty redo history,
\* change neither the stack nor the histories.
C5_EmptyHistoryNoOp ==
    ((input = UndoToken /\ undo = <<>>) \/ (input = RedoToken /\ redo = <<>>))
    => /\ AfterEnter.stack = stack
       /\ AfterEnter.undo = undo
       /\ AfterEnter.redo = redo

\* undo is about to run with nothing to undo, the stack and the redo history
\* holding something.
C5_Witness ==
    /\ input = UndoToken
    /\ undo = <<>>
    /\ redo # <<>>

\* C6: undo moves the newest undo snapshot to the stack and the stack to the
\* redo history; redo moves the newest redo snapshot to the stack and the
\* stack to the undo history; the number of snapshots stays the same.
C6_UndoRedoMoveSnapshots ==
    /\ (input = UndoToken /\ undo # <<>>)
       => /\ AfterEnter.stack = undo[Len(undo)]
          /\ AfterEnter.undo = SubSeq(undo, 1, Len(undo) - 1)
          /\ AfterEnter.redo = redo \o <<stack>>
    /\ (input = RedoToken /\ redo # <<>>)
       => /\ AfterEnter.stack = redo[Len(redo)]
          /\ AfterEnter.redo = SubSeq(redo, 1, Len(redo) - 1)
          /\ AfterEnter.undo = undo \o <<stack>>
    /\ input \in {UndoToken, RedoToken}
       => Len(AfterEnter.undo) + Len(AfterEnter.redo) = Len(undo) + Len(redo)

\* redo is about to run with snapshots in both histories that differ from
\* the stack.
C6_Witness ==
    /\ input = RedoToken
    /\ undo # <<>>
    /\ redo # <<>>
    /\ redo[Len(redo)] # stack
    /\ undo[Len(undo)] # stack

\* C7: a line that is no number and no token of the vocabulary changes
\* neither the stack nor the histories.
C7_UnrecognizedLineNoOp ==
    (~parse_f64(input).ok /\ input \notin Vocabulary)
    => /\ AfterEnter.stack = stack
       /\ AfterEnter.undo = undo
       /\ AfterEnter.redo = redo

\* A token with a space before it is about to be entered on a stack that
\* holds the operands of the token.
C7_Witness ==
    /\ input = <<" ", "+">>
    /\ Len(stack) = 2
    /\ undo # <<>>
    /\ redo # <<>>

\* The values of self's stack are all denoted exactly.
Exact(self) == \A i \in 1..Len(self.stack) : Representable(self.stack[i])

\* The state after the lines ls are entered, one after the other, in a new App.
RECURSIVE Entered(_)
Entered(ls) == IF ls = <<>> THEN new ELSE AfterLine(Entered(Pop(ls)), Top(ls))

\* The stack but its top two values, the value beneath the top, and the top.
Rest(stk) == SubSeq(stk, 1, Len(stk) - 2)

Beneath(stk) == stk[Len(stk) - 1]

\* The runs of the tests subtraction, division and modulus.
C8_Examples ==
    /\ Entered(<<<<"1", "0">>, <<"4">>, <<"-">>>>).stack = <<<<6, 1>>>>
    /\ Entered(<<<<"1", "0">>, <<"2">>, <<"/">>>>).stack = <<<<5, 1>>>>
    /\ Entered(<<<<"1", "0">>, <<"3">>, <<"%">>>>).stack = <<<<1, 1>>>>

\* C8: + - * / % on a stack [..rest, a, b] leave [..rest, a op b]: the value
\* beneath is the left operand, the top the right one.
C8_BinaryOperandOrder ==
    /\ (input \in {<<"+">>, <<"-">>, <<"*">>, <<"/">>, <<"%">>}
        /\ Len(stack) >= 2 /\ Exact(AfterEnter))
       => LET a == Beneath(stack)
              b == Top(stack)
          IN  /\ AfterEnter.stack =
                    Rest(stack) \o
                    << CASE input = <<"+">> -> f64_add(a, b)
                         [] input = <<"-">> -> f64_sub(a, b)
                         [] input = <<"*">> -> f64_mul(a, b)
                         [] input = <<"/">> -> f64_div(a, b)
                         [] input = <<"%">> -> f64_rem(a, b) >>
              /\ (a = <<3, 1>> /\ b = <<2, 1>>)
                 => Top(AfterEnter.stack) =
                       CASE input = <<"+">> -> <<5, 1>>
                         [] input = <<"-">> -> <<1, 1>>
                         [] input = <<"*">> -> <<6, 1>>
                         [] input = <<"/">> -> <<3, 2>>
                         [] input = <<"%">> -> <<1, 1>>
    /\ C8_Examples

\* 3 - 2 is about to be computed above a third value.
C8_Witness ==
    /\ input = <<"-">>
    /\ Len(stack) = 3
    /\ Beneath(stack) = <<3, 1>>
    /\ Top(stack) = <<2, 1>>

\* C9, as the specification states it: ^ raises the value beneath the top to
\* the power of the top.
C9_PowerBaseBeneath ==
    (input = <<"^">> /\ Len(stack) >= 2 /\ Exact(AfterEnter))
    => AfterEnter.stack = Rest(stack) \o <<f64_powf(Beneath(stack), Top(stack))>>

\* C9, amended: ^ takes the top of the stack as the base and the value
\* beneath it as the exponent, and replaces both with the power.
C9_PowerBaseOnTop ==
    (input = <<"^">> /\ Len(stack) >= 2 /\ Exact(AfterEnter))
    => /\ AfterEnter.stack =
             Rest(stack) \o <<f64_powf(Top(stack), Beneath(stack))>>
       /\ (Beneath(stack) = <<3, 1>> /\ Top(stack) = <<2, 1>>)
          => Top(AfterEnter.stack) = <<8, 1>>

\* ^ is about to run on 3 beneath 2, above a third value.
C9_Witness ==
    /\ input = <<"^">>
    /\ Len(stack) = 3
    /\ Beneath(stack) = <<3, 1>>
    /\ Top(stack) = <<2, 1>>

\* The runs of the tests exponentiation and exponent.
C10_Examples ==
    /\ Entered(<<<<"2">>, <<"3">>, <<"^">>>>).stack = <<<<9, 1>>>>
    /\ Entered(<<<<"4">>, <<"5">>, <<"^">>>>).stack = <<<<625, 1>>>>

\* C10: a, b, ^ entered on an empty stack leave the one value b^a.
C10_PowerOfEnteredValues ==
    /\ (input = <<"^">> /\ Len(stack) = 2 /\ undo = <<<<>>, <<stack[1]>>>>
        /\ Exact(AfterEnter))
       => /\ AfterEnter.stack = <<f64_powf(stack[2], stack[1])>>
          /\ stack = <<<<2, 1>>, <<3, 1>>>> => AfterEnter.stack = <<<<9, 1>>>>
    /\ C10_Examples

\* 2 and 3 were entered on the empty stack, and ^ is about to run.
C10_Witness ==
    /\ input = <<"^">>
    /\ stack = <<<<2, 1>>, <<3, 1>>>>
    /\ undo = <<<<>>, <<<<2, 1>>>>>>
    /\ redo = <<>>

\* A whole number of any size: its 16-bit limbs, lowest first, the highest
\* not 0 (no limb for 0).  x * k + c, for 0 <= k, c < 2^15.
RECURSIVE TimesPlus(_, _, _)
TimesPlus(x, k, c) ==
    IF x = <<>>
    THEN (IF c = 0 THEN <<>> ELSE <<c>>)
    ELSE <<(x[1] * k + c) % Limb>> \o TimesPlus(Tail(x), k, (x[1] * k + c) \div Limb)

\* The whole number written in decimal, four digits to the group, the
\* highest group first.
RECURSIVE FromGroups(_)
FromGroups(gs) ==
    IF gs = <<>> THEN <<>> ELSE TimesPlus(FromGroups(Pop(gs)), 10000, Top(gs))

\* The whole number x modulo 2^64, as four limbs.
Low64(x) == [i \in 1..4 |-> IF i <= Len(x) THEN x[i] ELSE 0]

\* The double of value u, a whole number below 2^64 in four limbs (written
\* exactly when it has such a double).
WholeDouble(u) ==
    IF u[3] = 0 /\ u[4] = 0 /\ u[2] < Pow2(15) THEN <<u[2] * Limb + u[1], 1>> ELSE u

\* 0!, 1!, ..., 20! in decimal groups.
CanonicalFactorial ==
    <<
       <<1>>,                       \*  0! = 1
       <<1>>,                       \*  1! = 1
       <<2>>,                       \*  2! = 2
       <<6>>,                       \*  3! = 6
       <<24>>,                      \*  4! = 24
       <<120>>,                     \*  5! = 120
       <<720>>,                     \*  6! = 720
       <<5040>>,                    \*  7! = 5040
       <<4, 320>>,                  \*  8! = 40320
       <<36, 2880>>,                \*  9! = 362880
       <<362, 8800>>,               \* 10! = 3628800
       <<3991, 6800>>,              \* 11! = 39916800
       <<4, 7900, 1600>>,           \* 12! = 479001600
       <<62, 2702, 800>>,           \* 13! = 6227020800
       <<871, 7829, 1200>>,         \* 14! = 87178291200
       <<1, 3076, 7436, 8000>>,     \* 15! = 1307674368000
       <<20, 9227, 8988, 8000>>,    \* 16! = 20922789888000
       <<355, 6874, 2809, 6000>>,   \* 17! = 355687428096000
       <<6402, 3737, 572, 8000>>,   \* 18! = 6402373705728000
       <<12, 1645, 1004, 883, 2000>>, \* 19! = 121645100408832000
       <<243, 2902, 81, 7664, 0>>   \* 20! = 2432902008176640000
    >>

\* v is a whole number from lo to hi.
WholeWithin(v, lo, hi) == IsInteger(v) /\ lo <= v[1] /\ v[1] <= hi

\* The tests factorial: 5, ! leave 120.
C11_Examples ==
    /\ Entered(<<<<"5">>, FactorialToken>>).stack = <<<<120, 1>>>>
    /\ Entered(<<<<"0">>, FactorialToken>>).stack = <<<<1, 1>>>>
    /\ Entered(<<<<"2", "0">>, FactorialToken>>).stack
          = << <<0, 33460, 26492, 8643>> >>

\* C11: with a whole number n from 0 to 20 on top of the stack, ! replaces it
\* by n! (0! = 1, 5! = 120) and leaves the values beneath as they were,
\* whatever the build.
C11_FactorialUpTo20 ==
    /\ (input = FactorialToken /\ stack # <<>> /\ WholeWithin(Top(stack), 0, 20))
       => LET n == Top(stack)[1]
          IN  /\ ~process_input_overflows(App)
              /\ AfterEnter.stack =
                    Pop(stack) \o <<WholeDouble(Low64(FromGroups(CanonicalFactorial[n + 1])))>>
              /\ n = 0 => Top(AfterEnter.stack) = <<1, 1>>
              /\ n = 5 => Top(AfterEnter.stack) = <<120, 1>>
    /\ C11_Examples

\* ! is about to run on 20, above another value.
C11_Witness ==
    /\ input = FactorialToken
    /\ Len(stack) = 2
    /\ Top(stack) = <<20, 1>>

\* The whole number nearest to |v|, for a finite v kept in a state: the k with
\* k - 1/2 <= |v| < k + 1/2 (of two nearest, the one away from zero).
Nearest(v) ==
    CHOOSE k \in 0..(Abs(v[1]) + 1) :
        /\ (2 * k - 1) * Den(v) <= 2 * Abs(v[1])
        /\ 2 * Abs(v[1]) < (2 * k + 1) * Den(v)

\* acc * lo * (lo + 1) * ... * hi, exactly (0 for acc = 0).
RECURSIVE ProductFrom(_, _, _)
ProductFrom(lo, hi, acc) ==
    IF lo > hi \/ acc = <<>> THEN acc
    ELSE IF lo = hi THEN TimesPlus(acc, lo, 0)
    ELSE ProductFrom((lo + hi) \div 2 + 1, hi, ProductFrom(lo, (lo + hi) \div 2, acc))

\* 1 * 2 * ... * n, exactly.
Product(n) == ProductFrom(1, n, <<1>>)

\* 1 * 2 * ... * n modulo 2^64, as a double: 66! is a multiple of 2^64, so
\* every later factorial is one.
ProductMod64(n) == IF n > 66 THEN PZero ELSE WholeDouble(Low64(Product(n)))

\* ! is about to run on a finite operand whose rounded absolute value is 21
\* or more.
FactorialOverflowCase ==
    /\ input = FactorialToken
    /\ stack # <<>>
    /\ Len(Top(stack)) = 2
    /\ IsFinite(Top(stack))
    /\ Nearest(Top(stack)) >= 21

\* What process_input leaves when it returns in that case: the product modulo
\* 2^64 on top, the stack of before in the undo history, no redo history.
C12_WrappedResult ==
    FactorialOverflowCase
    => /\ AfterEnter.stack = Pop(stack) \o <<ProductMod64(Nearest(Top(stack)))>>
       /\ AfterEnter.undo = Append(undo, stack)
       /\ AfterEnter.redo = <<>>

\* C12: on an operand whose rounded absolute value n is 21 or more, ! does
\* not abort: it pushes 1 * 2 * ... * n modulo 2^64 and records the action
\* in the history.
C12_FactorialWrapsSilently ==
    /\ ~panicked
    /\ C12_WrappedResult

\* The App with the top of its stack replaced by v.
WithTop(v) == [App EXCEPT !.stack = Append(Pop(stack), v)]

\* What Enter comes to in state self: a panic, or the stack it leaves.
Outcome(self) ==
    [panics |-> Panics(self),
     stack |-> IF Panics(self) THEN <<>> ELSE process_input(self).stack]

\* The runs -5, ! and 2.5, ! and -2.5, ! and .5, !
C13_Examples ==
    /\ Entered(<<<<"-", "5">>, FactorialToken>>).stack = <<<<120, 1>>>>
    /\ Entered(<<<<"2", ".", "5">>, FactorialToken>>).stack = <<<<6, 1>>>>
    /\ Entered(<<<<"-", "2", ".", "5">>, FactorialToken>>).stack = <<<<6, 1>>>>
    /\ Entered(<<<<".", "5">>, FactorialToken>>).stack = <<<<1, 1>>>>

\* C13: ! on an operand x does what it does on the whole number nearest to
\* |x|, so on x what it does on -x (120 for -5); it never leaves a non-empty
\* stack as a rejected operator does; and where that whole number is 20 or
\* less its result is the factorial of it.
C13_FactorialAbsRound ==
    /\ (input = FactorialToken /\ stack # <<>>)
       => LET x == Top(stack)
          IN  /\ Outcome(App) = Outcome(WithTop(f64_neg(x)))
              /\ IsFinite(x)
                 => Outcome(App) = Outcome(WithTop(<<Nearest(x), 1>>))
              /\ (IsFinite(x) /\ Nearest(x) <= 20)
                 => Outcome(App) =
                       [panics |-> FALSE,
                        stack |-> Pop(stack) \o
                           <<WholeDouble(Low64(FromGroups(CanonicalFactorial[Nearest(x) + 1])))>>]
              /\ x = <<-5, 1>> => Outcome(App).stack = Pop(stack) \o <<<<120, 1>>>>
              /\ ~Panics(App)
                 => /\ AfterEnter.undo = Append(undo, stack)
                    /\ Len(AfterEnter.stack) = Len(stack)
    /\ C13_Examples

\* ! is about to run on -2.5, above another value.
C13_Witness ==
    /\ input = FactorialToken
    /\ Len(stack) = 2
    /\ Top(stack) = <<-5, 2>>

\* The test clone, as lines: 10, 2 and the empty line.
C14_Examples ==
    /\ Entered(<<<<"1", "0">>, DuplicateToken>>).stack = <<<<10, 1>>, <<10, 1>>>>
    /\ Entered(<<<<"1", "0">>, <<"2">>, DuplicateToken>>).stack
          = <<<<10, 1>>, <<2, 1>>, <<2, 1>>>>

\* C14: the empty line on a stack [..rest, a] leaves [..rest, a, a]: one value
\* more, the top twice, the values beneath as they were.
C14_EmptyLineDuplicates ==
    /\ (input = DuplicateToken /\ stack # <<>>)
       => /\ AfterEnter.stack = stack \o <<Top(stack)>>
          /\ Len(AfterEnter.stack) = Len(stack) + 1
          /\ \A i \in 1..Len(stack) : AfterEnter.stack[i] = stack[i]
    /\ C14_Examples

\* The empty line is about to be entered on two values that differ.
C14_Witness ==
    /\ input = DuplicateToken
    /\ Len(stack) = 2
    /\ stack[1] # stack[2]

\* The tests swap: 10, 5, swap leave [5, 10].
C15_Examples ==
    /\ Entered(<<<<"1", "0">>, <<"5">>, SwapToken>>).stack = <<<<5, 1>>, <<10, 1>>>>
    /\ Entered(<<<<"1">>, <<"2">>, SwapToken>>).stack = <<<<2, 1>>, <<1, 1>>>>

\* C15: swap on a stack [..rest, a, b] leaves [..rest, b, a], of the same
\* length, and a second swap leaves the stack of before the first.
C15_SwapExchangesTopTwo ==
    /\ (input = SwapToken /\ Len(stack) >= 2)
       => /\ AfterEnter.stack = Rest(stack) \o <<Top(stack), Beneath(stack)>>
          /\ Len(AfterEnter.stack) = Len(stack)
          /\ AfterLine(AfterEnter, SwapToken).stack = stack
    /\ C15_Examples

\* swap is about to run on three values, the top two of which differ.
C15_Witness ==
    /\ input = SwapToken
    /\ Len(stack) = 3
    /\ Top(stack) # Beneath(stack)

\* The tests drop: 10, 5, drop leave [10].
C16_Examples ==
    /\ Entered(<<<<"1", "0">>, <<"5">>, DropToken>>).stack = <<<<10, 1>>>>
    /\ Entered(<<<<"5">>, <<"1", "0">>, DropToken>>).stack = <<<<5, 1>>>>

\* C16: drop on a stack [..rest, a] leaves [..rest]: the top is gone and every
\* other value is where it was.
C16_DropRemovesTop ==
    /\ (input = DropToken /\ stack # <<>>)
       => /\ Len(AfterEnter.stack) = Len(stack) - 1
          /\ \A i \in 1..(Len(stack) - 1) : AfterEnter.stack[i] = stack[i]
    /\ C16_Examples

\* drop is about to run on three values, the first and the last of which
\* differ.
C16_Witness ==
    /\ input = DropToken
    /\ Len(stack) = 3
    /\ stack[1] # stack[3]

\* The test clear: 10, 5, clear leave the empty stack, and undo then [10, 5].
C17_Examples ==
    /\ Entered(<<<<"1", "0">>, <<"5">>, ClearToken>>).stack = <<>>
    /\ Entered(<<<<"1", "0">>, <<"5">>, ClearToken, UndoToken>>).stack
          = <<<<10, 1>>, <<5, 1>>>>

\* C17: clear leaves the stack empty whatever it held, every snapshot of the
\* undo history stays where it was, and undo right after it brings back the
\* whole stack of before.
C17_ClearEmptiesStackOnly ==
    /\ input = ClearToken
       => /\ AfterEnter.stack = <<>>
          /\ Len(AfterEnter.undo) >= Len(undo)
          /\ \A i \in 1..Len(undo) : AfterEnter.undo[i] = undo[i]
          /\ AfterLine(AfterEnter, UndoToken).stack = stack
    /\ C17_Examples

\* clear is about to run on two values, the undo history holding the
\* snapshots of how they came there.
C17_Witness ==
    /\ input = ClearToken
    /\ Len(stack) = 2
    /\ Len(undo) = 2

\* Literals and the doubles they denote.
LiteralValue ==
    {<<InfToken, PInf>>,
     <<<<"-", "i", "n", "f">>, NInf>>,
     <<<<"+", "i", "n", "f">>, PInf>>,
     <<<<"I", "N", "F">>, PInf>>,
     <<<<"i", "n", "f", "i", "n", "i", "t", "y">>, PInf>>,
     <<<<"n", "a", "n">>, NaN>>,
     <<<<"N", "a", "N">>, NaN>>,
     <<<<"0">>, PZero>>,
     <<<<"-", "0">>, NZero>>,
     <<<<"2", "0">>, <<20, 1>>>>,
     <<<<"-", "1", "0">>, <<-10, 1>>>>,
     <<<<"2", ".", "5">>, <<5, 2>>>>,
     <<<<"-", "2", ".", "5">>, <<-5, 2>>>>,
     <<<<".", "5">>, <<1, 2>>>>,
     <<<<"5", ".">>, <<5, 1>>>>,
     <<<<"1", "e", "1">>, <<10, 1>>>>}

\* The state after num is pushed as a recorded action.
Pushed(self, num) ==
    /\ self.stack = Append(stack, num)
    /\ self.undo = Append(undo, stack)
    /\ self.redo = <<>>

\* The test push_infinity: the line inf leaves [+Infinity].
C18_Examples == Entered(<<InfToken>>).stack = <<PInf>>

\* C18: a line that parses as a floating-point literal pushes the value it
\* denotes, once and as a recorded action, whether or not it is a token of
\* the vocabulary; inf, -inf and nan are such lines, so the line inf pushes
\* +Infinity through the parse and the inf arm of the match never runs.
C18_LiteralBeforeVocabulary ==
    /\ parse_f64(input).ok => Pushed(AfterEnter, parse_f64(input).val)
    /\ \A e \in LiteralValue : input = e[1] => Pushed(AfterEnter, e[2])
    /\ ~(as_str(input) = InfToken /\ ~parse_f64(input).ok)
    /\ C18_Examples

\* The line -inf is about to be entered above another value.
C18_Witness ==
    /\ input = <<"-", "i", "n", "f">>
    /\ Len(stack) = 1
    /\ undo # <<>>

\* The tests divide_pos_by_0 and divide_neg_by_0, as lines.
C19_Examples ==
    /\ Entered(<<<<"1", "0">>, <<"0">>, <<"/">>>>).stack = <<PInf>>
    /\ Entered(<<<<"-", "1", "0">>, <<"0">>, <<"/">>>>).stack = <<NInf>>

\* C19: / with a zero on top and a value beneath that is neither zero nor NaN
\* returns, and pushes an infinity whose sign is the product of the two
\* signs: above the zero that the line 0 pushes, +Infinity for a positive
\* value beneath (10 / 0) and -Infinity for a negative one (-10 / 0).
C19_DivisionByZeroSignedInfinity ==
    /\ (input = <<"/">> /\ Len(stack) >= 2 /\ IsZero(Top(stack))
        /\ ~IsNaN(Beneath(stack)) /\ ~IsZero(Beneath(stack)))
       => /\ ~Panics(App)
          /\ AfterEnter.stack =
                Rest(stack) \o <<Inf(SignBit(Beneath(stack)) # SignBit(Top(stack)))>>
          /\ Top(stack) = PZero
             => Top(AfterEnter.stack) = IF Beneath(stack)[1] > 0 THEN PInf ELSE NInf
          /\ AfterEnter.undo = Append(undo, stack)
    /\ C19_Examples

\* / is about to divide -10 by 0.
C19_Witness ==
    /\ input = <<"/">>
    /\ stack = <<<<-10, 1>>, PZero>>

\* C20: no line, in any reachable state of the stack and the histories, makes
\* the program abort.
C20_NeverAborts == ~panicked

(* --------------------------- C21..C28: properties ----------------------- *)

\* The kinds of line process_input tells apart.
LineKind(line) ==
    IF parse_f64(line).ok THEN "number"
    ELSE IF line \in {UndoToken, RedoToken} THEN "history"
    ELSE IF line \in Vocabulary THEN "operator"
    ELSE "NoOp"

\* C21: after process_input returns, whatever the line (a number, an
\* operator, undo or redo, or a line that is nothing), the input line is
\* empty and the cursor is at position 0.
C21_ProcessInputClearsLine ==
    ~Panics(App)
    => /\ AfterEnter.input = <<>>
       /\ AfterEnter.character_index = 0

\* A line that is nothing is about to be entered, the cursor behind its
\* last character.
C21_Witness ==
    /\ LineKind(input) = "NoOp"
    /\ Len(input) = 3
    /\ character_index = 3
    /\ stack # <<>>

\* The unary tokens of process_input: the closures and `!`.
UnaryOperators == UnaryTokens \cup {FactorialToken}

\* A unary operator that returns leaves a stack of the same length whose
\* values below the top are as they were, and records the stack it found.
C23_UnaryKeepsRestOnReturn ==
    (input \in UnaryOperators /\ stack # <<>> /\ ~Panics(App))
    => /\ Len(AfterEnter.stack) = Len(stack)
       /\ Pop(AfterEnter.stack) = Pop(stack)
       /\ AfterEnter.undo = Append(undo, stack)

\* C23: a unary operator (neg abs sqrt sin cos tan asin acos atan deg rad
\* recip log10 logn log2 and !) entered on a non-empty stack [..rest, a]
\* yields [..rest, f(a)]: it returns, the stack has the length it had and
\* every value below the top is as it was.
C23_UnaryKeepsRest ==
    (input \in UnaryOperators /\ stack # <<>>)
    => /\ ~Panics(App)
       /\ Len(AfterEnter.stack) = Len(stack)
       /\ Pop(AfterEnter.stack) = Pop(stack)

\* The line undo entered again and again until the undo history is empty.
RECURSIVE UndoAll(_)
UndoAll(self) ==
    IF self.undo = <<>> THEN self ELSE UndoAll(AfterLine(self, UndoToken))

\* C24: in every reachable state the stack is empty if the undo history is,
\* and the oldest snapshot of a non-empty undo history is the empty stack; so
\* undo repeated until the undo history is exhausted leaves the empty stack
\* of the start.
C24_UndoHistoryStartsEmpty ==
    /\ undo = <<>> => stack = new.stack
    /\ undo # <<>> => undo[1] = new.stack
    /\ input = <<>> => UndoAll(App).stack = new.stack

\* Three snapshots to undo, none of them the stack and none but the oldest
\* empty.
C24_Witness ==
    /\ input = <<>>
    /\ Len(undo) >= 3
    /\ stack # <<>>
    /\ \A i \in 2..Len(undo) : undo[i] # <<>> /\ undo[i] # stack

\* The line undo entered k times, and the line redo entered k times, as far
\* as there is a snapshot to take.
RECURSIVE Undos(_, _)
Undos(self, k) ==
    IF k = 0 \/ self.undo = <<>> THEN self
    ELSE Undos(AfterLine(self, UndoToken), k - 1)

RECURSIVE Redos(_, _)
Redos(self, k) ==
    IF k = 0 \/ self.redo = <<>> THEN self
    ELSE Redos(AfterLine(self, RedoToken), k - 1)

\* The stack and the two histories of self.
Engine(self) == <<self.stack, self.undo, self.redo>>

\* C25: for every k up to the length of the undo history, undo k times and
\* then redo k times leaves the stack, the undo history and the redo history
\* as they were; and so does, for every k up to the length of the redo
\* history, redo k times and then undo k times.
C25_UndosThenRedosRestore ==
    input = <<>>
    => /\ \A k \in 1..Len(undo) : Engine(Redos(Undos(App, k), k)) = Engine(App)
       /\ \A k \in 1..Len(redo) : Engine(Undos(Redos(App, k), k)) = Engine(App)

\* Snapshots to undo and to redo, three at least, that differ from each other
\* and from the stack.
C25_Witness ==
    /\ input = <<>>
    /\ undo # <<>>
    /\ redo # <<>>
    /\ Len(undo) + Len(redo) >= 3
    /\ Cardinality({undo[i] : i \in 1..Len(undo)} \cup {redo[i] : i \in 1..Len(redo)}
                    \cup {stack}) = Len(undo) + Len(redo) + 1

\* C26: after any sequence of enter_char, delete_char, move_cursor_left,
\* move_cursor_right and process_input from a new App, the cursor is at a
\* position from 0 to the number of characters of the input line; moving
\* left at position 0, and moving right at the end of the line, leave it
\* where it is.
C26_CursorWithinLine ==
    /\ 0 <= character_index
    /\ character_index <= Len(input)
    /\ character_index = 0 => move_cursor_left(App).character_index = 0
    /\ character_index = Len(input)
       => move_cursor_right(App).character_index = Len(input)
    /\ \A key \in {Press(Left), Press(Right)} : on_key(App, key).input = input

\* The cursor has been moved back to the start of a line of three characters
\* after an earlier line was entered.
C26_Witness ==
    /\ input_mode = "Editing"
    /\ Len(input) = 3
    /\ character_index = 0
    /\ stack # <<>>

\* The fields of self that editing the line leaves alone.
BesidesLine(self) == <<self.input_mode, self.stack, self.undo, self.redo>>

\* The runs of the tests enter_char and delete_char: `a` typed in a new App,
\* and a character deleted from `hello` with the cursor at 3.
C27_Examples ==
    /\ enter_char(new, "a").input = <<"a">>
    /\ enter_char(new, "a").character_index = 1
    /\ LET hello == type_line(new, <<"h", "e", "l", "l", "o">>)
           at3 == move_cursor_left(move_cursor_left(hello))
       IN  /\ at3.character_index = 3
           /\ delete_char(at3).input = <<"h", "e", "l", "o">>
           /\ delete_char(at3).character_index = 2

\* C27: enter_char(c) inserts c at the cursor and moves the cursor one to the
\* right; delete_char removes the character left of the cursor, and no other,
\* and moves the cursor one to the left, and does nothing with the cursor at
\* 0; so delete_char after enter_char(c) gives back the line and the cursor.
C27_EnterCharDeleteChar ==
    /\ \A c \in KeyChars \cup {"a"} :
          LET entered == enter_char(App, c) IN
          /\ Len(entered.input) = Len(input) + 1
          /\ entered.input[character_index + 1] = c
          /\ \A j \in 1..character_index : entered.input[j] = input[j]
          /\ \A j \in (character_index + 1)..Len(input) : entered.input[j + 1] = input[j]
          /\ entered.character_index = character_index + 1
          /\ BesidesLine(entered) = BesidesLine(App)
          /\ delete_char(entered) = App
    /\ LET deleted == delete_char(App) IN
       IF character_index = 0 THEN deleted = App
       ELSE /\ Len(deleted.input) = Len(input) - 1
            /\ \A j \in 1..(character_index - 1) : deleted.input[j] = input[j]
            /\ \A j \in (character_index + 1)..Len(input) : deleted.input[j - 1] = input[j]
            /\ deleted.character_index = character_index - 1
            /\ BesidesLine(deleted) = BesidesLine(App)
    /\ C27_Examples

\* The cursor stands inside a line of three different characters, one
\* character to its right.
C27_Witness ==
    /\ input_mode = "Editing"
    /\ input = <<"2", "e", "q">>
    /\ character_index = 2
    /\ stack # <<>>

\* C28: in Normal mode no key event changes the stack, the undo history, the
\* redo history, the input line or the cursor: the key e switches to Editing
\* mode, the key q ends the loop of run, and every other key does nothing.
\* The stack and the histories change only when Enter is pressed in Editing
\* mode, and then as process_input changes them.
C28_NormalModeKeysDoNothing ==
    \A key \in KeyEvents :
       LET after == on_key(App, key) IN
       /\ input_mode = "Normal"
          => /\ Engine(after) = Engine(App)
             /\ after.input = input
             /\ after.character_index = character_index
             /\ after.input_mode = IF key.code = Char("e") THEN "Editing" ELSE "Normal"
             /\ run_returns(App, key) <=> key.code = Char("q")
       /\ input_mode = "Editing" => ~run_returns(App, key)
       /\ Engine(after) # Engine(App)
          => /\ input_mode = "Editing"
             /\ key = Press(EnterKey)
             /\ Engine(after) = Engine(process_input(App))

\* Normal mode on a line that would push a number, the cursor inside it and
\* a stack to duplicate.
C28_Witness ==
    /\ input_mode = "Normal"
    /\ input = <<"2", "2">>
    /\ character_index = 1
    /\ stack # <<>>
    /\ ~returned

\* A call of factorial is in flight.
InFactorial == frame # <<>>

\* The round-by-round loop and the operator factorial agree: the loop ends
\* on the product that perform_factorial pushes in the other machines, and
\* panics only where process_input is said to panic there.
C22_RoundsAgree ==
    InFactorial
    => /\ range_is_empty(frame[1]) => frame[1].result = factorial(frame[1].n).result
       /\ panicked => overflow_checks /\ factorial(frame[1].n).overflow

\* C22: every command terminates.  Enter on a line is one step of finitely
\* many operations, but for `!`, whose loop runs from 1 to round(|x|) cast to
\* u64: that loop always comes to an end, by factorial returning or by the
\* panic of an overflow, for every operand (large, infinite, NaN).
C22_EveryCommandTerminates == InFactorial ~> (~InFactorial \/ panicked)

\* The last round of the longest loop there is: the operand is an infinity,
\* the cast gives u64::MAX, and the range is about to yield u64::MAX.
C22_Witness ==
    /\ InFactorial
    /\ frame[1].n = U64_MAX
    /\ frame[1].i = U64_MAX
    /\ ~frame[1].exhausted

=============================================================================
